---- MODULE Spec2Model ----
(***************************************************************************)
(* Feedback classification and summary pipeline of the take-home worker.   *)
(*                                                                         *)
(* A JavaScript string is modelled as a sequence of chunks.  A chunk is a  *)
(* TLA+ string standing for one character ("{", "\n", "*", ...) or for a   *)
(* run of letters that the program only ever treats as a whole ("love",    *)
(* "Summary", "sentiment").  Every string operation of the source          *)
(* (toLowerCase, includes, match, exec, trim, split, JSON.parse,           *)
(* JSON.stringify) is computed chunk by chunk the way the engine computes  *)
(* it character by character.                                              *)
(***************************************************************************)
EXTENDS Integers, Sequences, FiniteSets, TLC

(***************************************************************************)
(* Chunks and character classes                                            *)
(***************************************************************************)
Q == "\""
NL == "\n"
SP == " "
\* JSON.stringify writes a quote inside a string as backslash-quote and a
\* line feed as backslash-n: two-character chunks of their own.
EscQ == "\\\""
EscNL == "\\n"

Min(a, b) == IF a < b THEN a ELSE b
Max(a, b) == IF a > b THEN a ELSE b

\* String.prototype.toLowerCase, chunk by chunk: the chunks that hold an
\* upper-case letter map to their lower-case form, every other chunk to itself.
LowerChunk(c) ==
    CASE c = "Love" -> "love"
      [] c = "GREAT" -> "great"
      [] c = "Hate" -> "hate"
      [] c = "ASAP" -> "asap"
      [] c = "Soon" -> "soon"
      [] c = "Summary" -> "summary"
      [] c = "SUMMARY" -> "summary"
      [] c = "Headline" -> "headline"
      [] c = "Key" -> "key"
      [] c = "Top" -> "top"
      [] c = "Themes" -> "themes"
      [] c = "THEMES" -> "themes"
      [] c = "Critical" -> "critical"
      [] c = "Issues" -> "issues"
      [] c = "Recommendation" -> "recommendation"
      [] c = "Positive" -> "positive"
      [] c = "Negative" -> "negative"
      [] c = "High" -> "high"
      [] OTHER -> c

toLowerCase(s) == [i \in 1..Len(s) |-> LowerChunk(s[i])]

\* String.prototype.includes: kw occurs in s as a contiguous run.
includes(s, kw) ==
    \E i \in 1..(Len(s) - Len(kw) + 1) : SubSeq(s, i, i + Len(kw) - 1) = kw

\* \s of the regular expressions, and what String.prototype.trim strips.
IsSpace(c) == c \in {SP, NL, "\t"}
\* . without the s flag: anything but a line terminator.
IsDot(c) == c # NL
IsDigit(c) == c \in {"0", "1", "2", "3", "4", "5", "6", "7", "8", "9"}
\* The bullet character U+2022 of the summary template, as one chunk.
Blt == "U+2022"
IsBullet(c) == c \in {Blt, "*", "-", "+"}

RECURSIVE Concat(_)
Concat(ss) == IF ss = <<>> THEN <<>> ELSE Head(ss) \o Concat(Tail(ss))

(***************************************************************************)
(* JavaScript values, as far as the oracle can return them                 *)
(***************************************************************************)
JUndef == [ty |-> "undef"]
JNull == [ty |-> "null"]
JBool(b) == [ty |-> "bool", b |-> b]
JNum(digits) == [ty |-> "num", n |-> digits]
JStr(s) == [ty |-> "str", s |-> s]
JArr(xs) == [ty |-> "arr", a |-> xs]
\* An object: its own properties in insertion order, [k |-> key, v |-> value].
JObj(props) == [ty |-> "obj", m |-> props]
P(k, v) == [k |-> k, v |-> v]

IsNullish(v) == v.ty \in {"undef", "null"}
IsString(v) == v.ty = "str"

\* ToBoolean.
Truthy(v) ==
    CASE v.ty \in {"undef", "null"} -> FALSE
      [] v.ty = "bool" -> v.b
      [] v.ty = "num" -> v.n # <<"0">>
      [] v.ty = "str" -> v.s # <<>>
      [] OTHER -> TRUE

\* v.key for a v that is not null or undefined (that read throws a TypeError,
\* which the callers model): an object's own property, the last one written
\* under that key; undefined for a primitive, an array or a missing key.
Get(v, key) ==
    IF v.ty # "obj" THEN JUndef
    ELSE LET hits == {i \in 1..Len(v.m) : v.m[i].k = key}
         IN  IF hits = {} THEN JUndef
             ELSE v.m[CHOOSE i \in hits : \A j \in hits : j <= i].v

\* a || b
OrElse(a, b) == IF Truthy(a) THEN a ELSE b

(***************************************************************************)
(* JSON.stringify and JSON.parse                                           *)
(***************************************************************************)
\* The escape JSON.stringify applies to one chunk of a string.
EscapeChunk(c) == IF c = Q THEN EscQ ELSE IF c = NL THEN EscNL ELSE c
UnescapeChunk(c) == IF c = EscQ THEN Q ELSE IF c = EscNL THEN NL ELSE c

QuoteString(s) == <<Q>> \o [i \in 1..Len(s) |-> EscapeChunk(s[i])] \o <<Q>>

\* JSON.stringify(v) for a v other than undefined (whose result is undefined,
\* no string: see StringifyTop).  Inside an array undefined is written null;
\* a property whose value is undefined is left out.
RECURSIVE Stringify(_), StringifyList(_, _), StringifyProps(_, _)
Stringify(v) ==
    CASE v.ty = "null" -> <<"null">>
      [] v.ty = "undef" -> <<"null">>
      [] v.ty = "bool" -> IF v.b THEN <<"true">> ELSE <<"false">>
      [] v.ty = "num" -> v.n
      [] v.ty = "str" -> QuoteString(v.s)
      [] v.ty = "arr" -> <<"[">> \o StringifyList(v.a, TRUE) \o <<"]">>
      [] v.ty = "obj" -> <<"{">> \o StringifyProps(v.m, TRUE) \o <<"}">>

StringifyList(xs, first) ==
    IF xs = <<>> THEN <<>>
    ELSE (IF first THEN <<>> ELSE <<",">>) \o Stringify(Head(xs))
         \o StringifyList(Tail(xs), FALSE)

StringifyProps(props, first) ==
    IF props = <<>> THEN <<>>
    ELSE IF Head(props).v.ty = "undef" THEN StringifyProps(Tail(props), first)
    ELSE (IF first THEN <<>> ELSE <<",">>) \o QuoteString(Head(props).k) \o <<":">>
         \o Stringify(Head(props).v) \o StringifyProps(Tail(props), FALSE)

\* String(v) of an object in place of its serialization.
ObjectToString(v) == JStr(<<"[", "object", SP, "Object", "]">>)

\* JSON.stringify at the top level: a JavaScript value, undefined for undefined.
StringifyTop(v) == IF v.ty = "undef" THEN JUndef ELSE JStr(Stringify(v))

\* The recursive-descent grammar of JSON.parse over chunks.  A parse step
\* returns [ok, v, n]: whether it succeeded, the value, the next position.
ParseFail == [ok |-> FALSE, v |-> JUndef, n |-> 0]
ParseOk(v, n) == [ok |-> TRUE, v |-> v, n |-> n]

RECURSIVE SkipWs(_, _)
SkipWs(t, i) == IF i <= Len(t) /\ IsSpace(t[i]) THEN SkipWs(t, i + 1) ELSE i

\* The position of the quote closing a string literal whose content starts
\* at j, or 0: a raw line feed may not occur inside a literal.
RECURSIVE StringEnd(_, _)
StringEnd(t, j) ==
    IF j > Len(t) THEN 0
    ELSE IF t[j] = Q THEN j
    ELSE IF t[j] = NL THEN 0
    ELSE StringEnd(t, j + 1)

\* t[i] is an opening quote.
ParseStringAt(t, i) ==
    LET e == StringEnd(t, i + 1)
    IN  IF e = 0 THEN ParseFail
        ELSE ParseOk(JStr([k \in 1..(e - i - 1) |-> UnescapeChunk(t[i + k])]), e + 1)

RECURSIVE DigitsEnd(_, _)
DigitsEnd(t, j) == IF j <= Len(t) /\ IsDigit(t[j]) THEN DigitsEnd(t, j + 1) ELSE j

\* A member read under a key already present replaces that member's value.
SetProp(acc, k, v) ==
    IF \E i \in 1..Len(acc) : acc[i].k = k
    THEN [i \in 1..Len(acc) |-> IF acc[i].k = k THEN P(k, v) ELSE acc[i]]
    ELSE Append(acc, P(k, v))

RECURSIVE ParseValue(_, _), ParseMembers(_, _, _), ParseElements(_, _, _)
ParseValue(t, i0) ==
    LET i == SkipWs(t, i0)
    IN  IF i > Len(t) THEN ParseFail
        ELSE CASE t[i] = "{" ->
                    LET j == SkipWs(t, i + 1)
                    IN  IF j <= Len(t) /\ t[j] = "}" THEN ParseOk(JObj(<<>>), j + 1)
                        ELSE ParseMembers(t, j, <<>>)
               [] t[i] = "[" ->
                    LET j == SkipWs(t, i + 1)
                    IN  IF j <= Len(t) /\ t[j] = "]" THEN ParseOk(JArr(<<>>), j + 1)
                        ELSE ParseElements(t, j, <<>>)
               [] t[i] = Q -> ParseStringAt(t, i)
               [] IsDigit(t[i]) ->
                    LET e == DigitsEnd(t, i)
                    IN  \* a leading zero is followed by no digit
                        IF t[i] = "0" /\ e > i + 1 THEN ParseFail
                        ELSE ParseOk(JNum(SubSeq(t, i, e - 1)), e)
               [] t[i] = "null" -> ParseOk(JNull, i + 1)
               [] t[i] = "true" -> ParseOk(JBool(TRUE), i + 1)
               [] t[i] = "false" -> ParseOk(JBool(FALSE), i + 1)
               [] OTHER -> ParseFail

\* i is where a member's key must start; acc holds the members read so far.
ParseMembers(t, i, acc) ==
    IF i > Len(t) \/ t[i] # Q THEN ParseFail
    ELSE LET key == ParseStringAt(t, i)
         IN  IF ~key.ok THEN ParseFail
             ELSE LET c == SkipWs(t, key.n)
                  IN  IF c > Len(t) \/ t[c] # ":" THEN ParseFail
                      ELSE LET val == ParseValue(t, c + 1)
                           IN  IF ~val.ok THEN ParseFail
                               ELSE LET d == SkipWs(t, val.n)
                                        got == SetProp(acc, key.v.s, val.v)
                                    IN  IF d > Len(t) THEN ParseFail
                                        ELSE IF t[d] = "," THEN ParseMembers(t, SkipWs(t, d + 1), got)
                                        ELSE IF t[d] = "}" THEN ParseOk(JObj(got), d + 1)
                                        ELSE ParseFail

ParseElements(t, i, acc) ==
    LET val == ParseValue(t, i)
    IN  IF ~val.ok THEN ParseFail
        ELSE LET d == SkipWs(t, val.n)
                 got == Append(acc, val.v)
             IN  IF d > Len(t) THEN ParseFail
                 ELSE IF t[d] = "," THEN ParseElements(t, d + 1, got)
                 ELSE IF t[d] = "]" THEN ParseOk(JArr(got), d + 1)
                 ELSE ParseFail

\* JSON.parse(t): [ok |-> FALSE] where it throws a SyntaxError.  The whole
\* text must be one value, white space around it allowed.
JSONparse(t) ==
    LET r == ParseValue(t, 1)
    IN  IF r.ok /\ SkipWs(t, r.n) = Len(t) + 1 THEN r ELSE ParseFail

(***************************************************************************)
(* Regular expressions: a backtracking matcher over the constructs the     *)
(* source's patterns use.  A pattern is a sequence of elements; Match      *)
(* returns the first match in the engine's priority order (a greedy        *)
(* quantifier tries its longest run first, a lazy one its shortest).       *)
(***************************************************************************)
Lit(c) == [op |-> "lit", c |-> c]
\* one character of a class; [..]? ; [..]* ; [..]+ (the last three greedy)
Cls(cls) == [op |-> "cls", cls |-> cls]
Opt(cls) == [op |-> "opt", cls |-> cls]
Star(cls) == [op |-> "star", cls |-> cls]
Plus(cls) == [op |-> "plus", cls |-> cls]
\* the capture group: (.+?) is Cap(1, "dot") or, under the s flag,
\* Cap(1, "any"); ([\s\S]*?) is Cap(0, "any")
Cap(min, cls) == [op |-> "cap", min |-> min, cls |-> cls]
\* (?=a|b|...) with each alternative a pattern; $ without the m flag
Look(alts) == [op |-> "look", alts |-> alts]
End == [op |-> "end"]

InClass(c, cls) ==
    CASE cls = "sp" -> IsSpace(c)
      [] cls = "nl" -> c = NL
      [] cls = "dot" -> IsDot(c)
      [] cls = "any" -> TRUE
      [] cls = "digit" -> IsDigit(c)
      [] cls = "bullet" -> IsBullet(c)
      [] cls = "colstar" -> c \in {":", "*"}
      [] cls = "coldash" -> c \in {":", "-"}
      [] cls = "dotparen" -> c \in {".", ")"}

\* How many chunks from position i on are in the class.
RECURSIVE RunLen(_, _, _)
RunLen(t, i, cls) ==
    IF i <= Len(t) /\ InClass(t[i], cls) THEN 1 + RunLen(t, i + 1, cls) ELSE 0

NoMatch == [ok |-> FALSE, e |-> 0, cs |-> 0, ce |-> 0]

\* The first of two attempts that succeeded, the second tried only when the
\* first failed: the order in which a backtracking engine explores them.
OrElseMatch(first, second) == IF first.ok THEN first ELSE second

\* The match r with the capture group set to cs..ce-1.
Captured(r, cs, ce) == IF r.ok THEN [r EXCEPT !.cs = cs, !.ce = ce] ELSE r

\* Elements k.. of pat matched at position i of t: [ok, e, cs, ce] with e the
\* position after the match and cs..ce-1 the capture group.  Literals compare
\* case-insensitively: every pattern of the source that holds a letter has
\* the i flag.  Greedy tries the runs of a greedy quantifier from m chunks
\* down to lo, Lazy the runs of the lazy capture group from m chunks up to hi.
RECURSIVE Match(_, _, _, _), Greedy(_, _, _, _, _, _), Lazy(_, _, _, _, _, _)
Greedy(pat, k, t, i, m, lo) ==
    IF m < lo THEN NoMatch
    ELSE OrElseMatch(Match(pat, k + 1, t, i + m), Greedy(pat, k, t, i, m - 1, lo))

Lazy(pat, k, t, i, m, hi) ==
    IF m > hi THEN NoMatch
    ELSE OrElseMatch(Captured(Match(pat, k + 1, t, i + m), i, i + m), Lazy(pat, k, t, i, m + 1, hi))

Match(pat, k, t, i) ==
    IF k > Len(pat) THEN [ok |-> TRUE, e |-> i, cs |-> 0, ce |-> 0]
    ELSE CASE pat[k].op = "lit" ->
                IF i <= Len(t) /\ LowerChunk(t[i]) = LowerChunk(pat[k].c)
                THEN Match(pat, k + 1, t, i + 1) ELSE NoMatch
           [] pat[k].op = "cls" ->
                IF i <= Len(t) /\ InClass(t[i], pat[k].cls)
                THEN Match(pat, k + 1, t, i + 1) ELSE NoMatch
           [] pat[k].op = "opt" ->
                Greedy(pat, k, t, i, Min(1, RunLen(t, i, pat[k].cls)), 0)
           [] pat[k].op = "star" -> Greedy(pat, k, t, i, RunLen(t, i, pat[k].cls), 0)
           [] pat[k].op = "plus" -> Greedy(pat, k, t, i, RunLen(t, i, pat[k].cls), 1)
           [] pat[k].op = "cap" -> Lazy(pat, k, t, i, pat[k].min, RunLen(t, i, pat[k].cls))
           [] pat[k].op = "look" ->
                IF \E a \in pat[k].alts : Match(a, 1, t, i).ok
                THEN Match(pat, k + 1, t, i) ELSE NoMatch
           [] pat[k].op = "end" ->
                IF i = Len(t) + 1 THEN Match(pat, k + 1, t, i) ELSE NoMatch

\* A search's outcome: [ok, s, e, cap] with s..e-1 the match and cap the
\* capture group's text; NotFound is the null of match and exec.
NotFound == [ok |-> FALSE, s |-> 0, e |-> 0, cap |-> <<>>]
Found(t, s, m) ==
    [ok |-> TRUE, s |-> s, e |-> m.e, cap |-> IF m.cs = 0 THEN <<>> ELSE SubSeq(t, m.cs, m.ce - 1)]
FoundOr(t, s, m, later) == IF m.ok THEN Found(t, s, m) ELSE later

\* The leftmost match of pat in t starting at or after position from.
RECURSIVE Search(_, _, _)
Search(pat, t, from) ==
    IF from > Len(t) + 1 THEN NotFound
    ELSE FoundOr(t, from, Match(pat, 1, t, from), Search(pat, t, from + 1))

\* String.prototype.match without the g flag.
match(t, pat) == Search(pat, t, 1)

\* The loop "while ((m = re.exec(text)) !== null)" of a g-flagged pattern:
\* the captures of the successive matches, each search resuming at lastIndex
\* (ExecNext is the loop body for the match m).
RECURSIVE ExecAll(_, _, _), ExecNext(_, _, _)
ExecNext(pat, t, m) ==
    IF ~m.ok THEN <<>>
    ELSE <<m.cap>> \o ExecAll(pat, t, IF m.e > m.s THEN m.e ELSE m.e + 1)

ExecAll(pat, t, lastIndex) == ExecNext(pat, t, Search(pat, t, lastIndex))

\* String.prototype.trim.
RECURSIVE TrimLeft(_), TrimRight(_)
TrimLeft(s) == IF s # <<>> /\ IsSpace(Head(s)) THEN TrimLeft(Tail(s)) ELSE s
TrimRight(s) ==
    IF s # <<>> /\ IsSpace(s[Len(s)]) THEN TrimRight(SubSeq(s, 1, Len(s) - 1)) ELSE s
trim(s) == TrimRight(TrimLeft(s))

\* String.prototype.split on the line feed.
RECURSIVE SplitLines(_, _)
SplitLines(s, cur) ==
    IF s = <<>> THEN <<cur>>
    ELSE IF Head(s) = NL THEN <<cur>> \o SplitLines(Tail(s), <<>>)
    ELSE SplitLines(Tail(s), Append(cur, Head(s)))
split(s) == SplitLines(s, <<>>)

(***************************************************************************)
(* classifyFeedback                                                        *)
(***************************************************************************)
\* What "await env.AI.run(...)" can do: reject, or resolve to a value.
Rejected == [kind |-> "rejected"]
Resolved(v) == [kind |-> "resolved", v |-> v]

Key(name) == <<name>>
Word(w) == JStr(<<w>>)

\* /\{[\s\S]*\}/
JsonSpan == <<Lit("{"), Star("any"), Lit("}")>>

\* A catch block that tests the negative words first.
KeywordFallbackNegativeFirst(text) ==
    LET lowerText == toLowerCase(text)
        has(w) == includes(lowerText, <<w>>)
        sentiment == IF has("bad") \/ has("hate") \/ has("terrible") THEN "negative"
                     ELSE IF has("great") \/ has("love") \/ has("excellent") THEN "positive"
                     ELSE "neutral"
        urgency == IF has("urgent") \/ has("asap") \/ has("critical") THEN "high"
                   ELSE IF has("soon") \/ has("important") THEN "medium"
                   ELSE "low"
    IN  JObj(<<P(Key("sentiment"), Word(sentiment)), P(Key("urgency"), Word(urgency))>>)

\* The catch block: the keyword classification of the lower-cased text.
KeywordFallback(text) ==
    LET lowerText == toLowerCase(text)
        has(w) == includes(lowerText, <<w>>)
        sentiment == IF has("great") \/ has("love") \/ has("excellent") THEN "positive"
                     ELSE IF has("bad") \/ has("hate") \/ has("terrible") THEN "negative"
                     ELSE "neutral"
        urgency == IF has("urgent") \/ has("asap") \/ has("critical") THEN "high"
                   ELSE IF has("soon") \/ has("important") THEN "medium"
                   ELSE "low"
    IN  JObj(<<P(Key("sentiment"), Word(sentiment)), P(Key("urgency"), Word(urgency))>>)

Sentiments == {"positive", "negative", "neutral"}
Urgencies == {"high", "medium", "low"}

\* A normalization that keeps any string the candidate holds.
NormalizeAnyString(classification) ==
    LET s == Get(classification, Key("sentiment"))
        u == Get(classification, Key("urgency"))
    IN  [sentiment |-> IF IsString(s) /\ Len(s.s) = 1 THEN s.s[1] ELSE "neutral",
         urgency |-> IF IsString(u) /\ Len(u.s) = 1 THEN u.s[1] ELSE "low"]

\* "Validate and normalize": Array.prototype.includes compares with ===, so
\* only a string equal to one of the literals is kept.
\* A validation that keeps the two fields only when both are valid.
NormalizeTogether(classification) ==
    LET s == Get(classification, Key("sentiment"))
        u == Get(classification, Key("urgency"))
    IN  IF (\E w \in Sentiments : s = Word(w)) /\ (\E w \in Urgencies : u = Word(w))
        THEN [sentiment |-> s.s[1], urgency |-> u.s[1]]
        ELSE [sentiment |-> "neutral", urgency |-> "low"]

Normalize(classification) ==
    LET s == Get(classification, Key("sentiment"))
        u == Get(classification, Key("urgency"))
    IN  [sentiment |-> IF \E w \in Sentiments : s = Word(w) THEN s.s[1] ELSE "neutral",
         urgency |-> IF \E w \in Urgencies : u = Word(w) THEN u.s[1] ELSE "low"]

\* The try block: the candidate object read out of the response text, or
\* [ok |-> FALSE] when the block throws (no span, a SyntaxError of
\* JSON.parse, or responseText.match not being a function because the
\* response field holds a truthy value that is no string).
\* An extraction whose span ends at the first closing brace after the first
\* opening brace.
ExtractFirstObject(responseText) ==
    IF ~IsString(responseText) THEN ParseFail
    ELSE LET t == responseText.s
             opens == {i \in 1..Len(t) : t[i] = "{"}
             first == CHOOSE i \in opens : \A j \in opens : i <= j
             closes == {i \in 1..Len(t) : t[i] = "}" /\ i > first}
             close == CHOOSE i \in closes : \A j \in closes : i <= j
         IN  IF opens = {} THEN ParseFail
             ELSE IF closes = {} THEN ParseFail
             ELSE JSONparse(SubSeq(t, first, close))

ExtractCandidate(responseText) ==
    IF ~IsString(responseText) THEN ParseFail
    ELSE LET jsonMatch == match(responseText.s, JsonSpan)
         IN  IF jsonMatch.ok
             THEN JSONparse(SubSeq(responseText.s, jsonMatch.s, jsonMatch.e - 1))
             ELSE ParseFail

Threw(what) == [kind |-> "threw", error |-> what]

\* A classifyFeedback whose try block also covers the oracle call and the
\* read of its value.
classifyFeedbackCatchAll(text, ai) ==
    IF ai.kind = "rejected" \/ IsNullish(ai.v)
    THEN [kind |-> "returned", result |-> Normalize(KeywordFallback(text)), fallback |-> TRUE]
    ELSE LET responseText == OrElse(Get(ai.v, Key("response")), StringifyTop(ai.v))
             extracted == ExtractCandidate(responseText)
             classification == IF extracted.ok THEN extracted.v ELSE KeywordFallback(text)
         IN  [kind |-> "returned", result |-> Normalize(classification),
              fallback |-> ~extracted.ok]

\* A classifyFeedback that refuses an empty text before anything else.
classifyFeedbackNonEmpty(text, ai) ==
    IF text = <<>> THEN Threw("InvalidInput")
    ELSE IF ai.kind = "rejected" THEN Threw("AI.run rejected")
    ELSE IF IsNullish(ai.v) THEN Threw("TypeError")
    ELSE LET responseText == OrElse(Get(ai.v, Key("response")), StringifyTop(ai.v))
             extracted == ExtractCandidate(responseText)
             classification == IF extracted.ok THEN extracted.v ELSE KeywordFallback(text)
         IN  [kind |-> "returned", result |-> Normalize(classification),
              fallback |-> ~extracted.ok]

\* classifyFeedback(text, env) given what the oracle call did: the promise
\* rejects ([kind |-> "threw"]) or resolves to a ClassificationResult;
\* fallback records whether the catch block computed the candidate.
classifyFeedback(text, ai) ==
    IF ai.kind = "rejected" THEN Threw("AI.run rejected")
    ELSE IF IsNullish(ai.v) THEN Threw("TypeError")
    ELSE LET responseText == OrElse(Get(ai.v, Key("response")), StringifyTop(ai.v))
             extracted == ExtractCandidate(responseText)
             classification == IF extracted.ok THEN extracted.v ELSE KeywordFallback(text)
         IN  [kind |-> "returned", result |-> Normalize(classification),
              fallback |-> ~extracted.ok]

(***************************************************************************)
(* State                                                                   *)
(***************************************************************************)
VARIABLES
    cf,      \* one classifyFeedback call: its text, the oracle call, its outcome
    store,   \* the feedback table: id -> row
    env,     \* how the collaborators behave: [ai, db]
    pf,      \* the processFeedback invocations: request -> its local state
    writes,  \* id -> the number of UPDATEs the table has applied to the row
    gs,      \* one generateSummary invocation
    ps,      \* one parseSummary call: its text and its result
    served   \* the /process requests answered so far, where they are counted

vars == <<cf, store, env, pf, writes, gs, ps, served>>

None == [kind |-> "none"]
Pending == [kind |-> "pending"]

(***************************************************************************)
(* The inputs of one classifyFeedback call                                 *)
(***************************************************************************)
\* Feedback texts: up to MaxTextLen chunks.
MaxTextLen == 2
FeedbackChunks == {"Love", "GREAT", "hate", "urgent", "Soon", "ok"}

RECURSIVE SeqsUpTo(_, _)
SeqsUpTo(S, n) ==
    IF n = 0 THEN {<<>>}
    ELSE LET shorter == SeqsUpTo(S, n - 1)
         IN  shorter \cup {Append(t, c) : t \in {u \in shorter : Len(u) = n - 1}, c \in S}

FeedbackTexts == SeqsUpTo(FeedbackChunks, MaxTextLen)

\* Response texts: up to MaxMembers members separated by commas, inside
\* braces (alone, between a lead-in and a tail, or followed by a stray
\* closing brace), after an opening brace only, or bare.
MaxMembers == 2
Member(name, valueText) == <<Q, name, Q, ":">> \o valueText
Quoted(w) == <<Q, w, Q>>
ResponseMembers ==
    { Member("sentiment", Quoted("positive")),
      Member("sentiment", Quoted("Negative")),
      Member("urgency", Quoted("high")),
      Member("urgency", <<"5">>),
      <<"maybe">> }

\* The sequences ss joined with sep between them.
RECURSIVE JoinSeqs(_, _)
JoinSeqs(ss, sep) ==
    IF ss = <<>> THEN <<>>
    ELSE IF Len(ss) = 1 THEN ss[1]
    ELSE ss[1] \o sep \o JoinSeqs(Tail(ss), sep)

ResponseTexts ==
    UNION { { <<"{">> \o b \o <<"}">>,
              <<"Sure", ":", SP, "{">> \o b \o <<"}", SP, "ok">>,
              <<"{">> \o b \o <<"}", SP, "}">>,
              <<"{">> \o b,
              b } : b \in {JoinSeqs(ms, <<",">>) : ms \in SeqsUpTo(ResponseMembers, MaxMembers)} }

\* The gpt-oss envelope around a text.
Envelope(text) ==
    JObj(<<P(Key("output"),
             JArr(<<JObj(<<P(Key("type"), Word("message")),
                           P(Key("content"),
                             JArr(<<JObj(<<P(Key("type"), Word("output_text")),
                                           P(Key("text"), JStr(text))>>)>>))>>)>>))>>)

ClassifierText == <<"{">> \o Member("sentiment", Quoted("negative")) \o <<",">>
                  \o Member("urgency", Quoted("medium")) \o <<"}">>

\* What the oracle may resolve to: a plain string, an object with a response
\* field, and the other shapes a JSON-speaking service can produce.
OracleValues ==
    {JStr(t) : t \in ResponseTexts}
    \cup {JObj(<<P(Key("response"), JStr(t))>>) : t \in ResponseTexts}
    \cup { JNull, JUndef, JNum(<<"5">>), JArr(<<>>),
           JObj(<<P(Key("response"), JNum(<<"5">>))>>),
           JObj(<<P(Key("response"), JNull)>>),
           JObj(<<P(Key("sentiment"), Word("negative")), P(Key("urgency"), Word("high"))>>),
           Envelope(ClassifierText), Envelope(<<"fine">>) }

OracleOutcomes == {Rejected} \cup {Resolved(v) : v \in OracleValues}

(***************************************************************************)
(* classifyFeedback as a process: the call, then the oracle's answer       *)
(***************************************************************************)
IdleCf == [text |-> <<>>, ai |-> None, out |-> None]
IdleGs == [pc |-> "off"]
IdlePs == [summary |-> JUndef, out |-> None]

\* The call builds the prompt and awaits env.AI.run.
ClassifyCall ==
    /\ cf.ai = None
    /\ cf' = [cf EXCEPT !.ai = Pending]
    /\ UNCHANGED <<store, env, pf, writes, gs, ps, served>>

\* The oracle call settles and the function runs to its end.
ClassifyResume ==
    /\ cf.ai = Pending
    /\ \E o \in OracleOutcomes :
          cf' = [cf EXCEPT !.ai = o, !.out = classifyFeedback(cf.text, o)]
    /\ UNCHANGED <<store, env, pf, writes, gs, ps, served>>

InitClassify ==
    /\ \E t \in FeedbackTexts : cf = [text |-> t, ai |-> None, out |-> None]
    /\ store = <<>>
    /\ env = [ai |-> "flaky", db |-> "flaky"]
    /\ pf = <<>>
    /\ writes = <<>>
    /\ gs = IdleGs
    /\ ps = IdlePs
    /\ served = 0

NextClassify == ClassifyCall \/ ClassifyResume

SpecClassify == InitClassify /\ [][NextClassify]_vars

(***************************************************************************)
(* processFeedback                                                         *)
(***************************************************************************)
NULL == "NULL"
\* LIMIT 10 of the SELECT.
BatchLimit == 10

Requests == {"r1", "r2"}

Unclassified(row) == row.sentiment = NULL \/ row.urgency = NULL

\* SELECT ... WHERE sentiment IS NULL OR urgency IS NULL LIMIT 10, the rows
\* in rowid order (the table scan's order).
RECURSIVE SelectFrom(_, _, _)
SelectFrom(table, id, limit) ==
    IF id > Len(table) \/ limit = 0 THEN <<>>
    ELSE IF Unclassified(table[id])
         THEN <<[id |-> id, content |-> table[id].content]>> \o SelectFrom(table, id + 1, limit - 1)
         ELSE SelectFrom(table, id + 1, limit)

\* A SELECT without its WHERE clause: the first BatchLimit rows.
SelectFirstRows(table) ==
    [k \in 1..Min(BatchLimit, Len(table)) |-> [id |-> k, content |-> table[k].content]]

SelectUnclassified(table) == SelectFrom(table, 1, BatchLimit)

\* What the oracle call of one item can do under env.ai: "down" rejects every
\* call, "up" resolves every call, "flaky" may do either.
NoJsonAnswer == JObj(<<P(Key("response"), JStr(<<"Sure", SP, "maybe">>))>>)
JsonAnswer == JObj(<<P(Key("response"), JStr(ClassifierText))>>)
AiOutcomes(mode) ==
    (IF mode \in {"down", "flaky"} THEN {Rejected} ELSE {})
    \cup (IF mode = "flaky" THEN {Resolved(JNull)} ELSE {})
    \cup (IF mode \in {"up", "flaky"} THEN {Resolved(NoJsonAnswer), Resolved(JsonAnswer)} ELSE {})

\* What a D1 statement can do under env.db: "up" succeeds, "flaky" may also
\* throw or, for a query, resolve with success = false.
DbOutcomes(mode) == IF mode = "flaky" THEN {"ok", "throws", "unsuccessful"} ELSE {"ok"}

IdlePf == [pc |-> "idle", query |-> "none", rows |-> <<>>, i |-> 0, classification |-> None,
           processed |-> <<>>, errors |-> <<>>, response |-> None]

\* A Response whose status option is dropped: every response is a 200.
ResponseAlwaysOk(status, body) == [status |-> 200, body |-> body]

\* new Response(JSON.stringify(body), {status}), status 200 unless given.
Response(status, body) == [status |-> status, body |-> body]

\* The return after the loop; JSON.stringify leaves out errors: undefined.
BatchResponse(st) ==
    Response(200,
        IF st.errors = <<>>
        THEN [processed |-> Len(st.processed), items |-> st.processed]
        ELSE [processed |-> Len(st.processed), items |-> st.processed, errors |-> st.errors])

\* The end of one iteration of the for loop: the next item's classifyFeedback
\* call is issued, or the loop is over and the function returns.
NextItem(st) ==
    IF st.i < Len(st.rows)
    THEN [st EXCEPT !.i = st.i + 1, !.pc = "classify", !.classification = None]
    ELSE [st EXCEPT !.pc = "done", !.classification = None, !.response = BatchResponse(st)]

\* A loop without its own try/catch: the first failure ends the request.
CatchItemAbort(st, error) ==
    [st EXCEPT !.pc = "done", !.classification = None,
               !.response = Response(500, [error |-> error])]

\* catch (error) { errors.push({id, error: String(error)}) } of the loop body.
CatchItem(st, error) ==
    NextItem([st EXCEPT !.errors = Append(st.errors, [id |-> st.rows[st.i].id, error |-> error])])

\* processed.push({...}) after the UPDATE; fallback is a history field.
PushProcessed(st) ==
    NextItem([st EXCEPT !.processed =
        Append(st.processed, [id |-> st.rows[st.i].id,
                              sentiment |-> st.classification.result.sentiment,
                              urgency |-> st.classification.result.urgency,
                              fallback |-> st.classification.fallback])])

\* The request arrives and its SELECT settles.
PfSelect(r) ==
    /\ pf[r].pc = "idle"
    /\ \E db \in DbOutcomes(env.db) :
          LET rows == SelectUnclassified(store)
          IN  pf' = [pf EXCEPT ![r] =
                IF db = "throws"
                THEN [@ EXCEPT !.pc = "done", !.query = db,
                               !.response = Response(500, [error |-> "D1_ERROR"])]
                ELSE IF db = "unsuccessful" \/ rows = <<>>
                THEN [@ EXCEPT !.pc = "done", !.query = db,
                               !.response = Response(200, [message |-> "No unprocessed feedback found"])]
                ELSE [@ EXCEPT !.pc = "classify", !.query = db, !.rows = rows, !.i = 1]]
    /\ UNCHANGED <<cf, store, env, writes, gs, ps, served>>

\* The content of the sample rows.
SampleText(id) == IF id % 2 = 1 THEN <<"Love", "ok">> ELSE <<"hate", "urgent">>

\* classifyFeedback(item.content, env) for the contents the tables hold and
\* the outcomes the oracle call can have, tabulated once.
Classifications ==
    { [text |-> SampleText(id), ai |-> o, out |-> classifyFeedback(SampleText(id), o)] :
          id \in 1..2, o \in AiOutcomes("flaky") }

Classification(text, o) == (CHOOSE c \in Classifications : c.text = text /\ c.ai = o).out

\* The oracle call of the current item settles: classifyFeedback returns and
\* the UPDATE is issued, or it throws into the loop's catch.
PfClassify(r) ==
    /\ pf[r].pc = "classify"
    /\ \E o \in AiOutcomes(env.ai) :
          LET out == Classification(pf[r].rows[pf[r].i].content, o)
          IN  pf' = [pf EXCEPT ![r] =
                IF out.kind = "threw" THEN CatchItem(@, out.error)
                ELSE [@ EXCEPT !.pc = "update", !.classification = out]]
    /\ UNCHANGED <<cf, store, env, writes, gs, ps, served>>

\* An UPDATE that sets the sentiment column only.
WriteBackSentimentOnly(table, id, result) ==
    [table EXCEPT ![id].sentiment = result.sentiment]

\* UPDATE feedback SET sentiment = ?, urgency = ? WHERE id = ?
WriteBack(table, id, result) ==
    [table EXCEPT ![id].sentiment = result.sentiment, ![id].urgency = result.urgency]

\* The UPDATE of the current item settles: the row is written, or run() throws.
PfUpdate(r) ==
    /\ pf[r].pc = "update"
    /\ \E db \in DbOutcomes(env.db) \ {"unsuccessful"} :
          LET id == pf[r].rows[pf[r].i].id
          IN  IF db = "ok"
              THEN /\ store' = WriteBack(store, id, pf[r].classification.result)
                   /\ writes' = [writes EXCEPT ![id] = @ + 1]
                   /\ pf' = [pf EXCEPT ![r] = PushProcessed(@)]
              ELSE /\ pf' = [pf EXCEPT ![r] = CatchItem(@, "D1_ERROR")]
                   /\ UNCHANGED <<store, writes>>
    /\ UNCHANGED <<cf, env, gs, ps, served>>

\* The response is sent; the next GET /process starts from scratch.
PfRespond(r) ==
    /\ pf[r].pc = "done"
    /\ pf' = [pf EXCEPT ![r] = IdlePf]
    /\ UNCHANGED <<cf, store, env, writes, gs, ps, served>>

\* The rows of the table before any classification: both fields NULL.
NewRow(content) == [content |-> content, sentiment |-> NULL, urgency |-> NULL,
                    created_at |-> "2026-01-18"]

\* Tables of the sample rows: a few rows under collaborators that may fail at
\* any call, and up to MaxRows rows (more than one batch) under an oracle that
\* is down.
MaxFlakyRows == 2
MaxRows == 11

InitBatch ==
    /\ \/ /\ env = [ai |-> "flaky", db |-> "flaky"]
          /\ \E n \in 0..MaxFlakyRows : store = [id \in 1..n |-> NewRow(SampleText(id))]
       \/ /\ env = [ai |-> "down", db |-> "up"]
          /\ \E n \in 0..MaxRows : store = [id \in 1..n |-> NewRow(SampleText(id))]
    /\ writes = [id \in DOMAIN store |-> 0]
    /\ pf = [r \in Requests |-> IdlePf]
    /\ cf = IdleCf
    /\ gs = IdleGs
    /\ ps = IdlePs
    /\ served = 0

NextBatch == \E r \in Requests : PfSelect(r) \/ PfClassify(r) \/ PfUpdate(r) \/ PfRespond(r)

Spec == InitBatch /\ [][NextBatch]_vars

(***************************************************************************)
(* Draining the table: GET /process requests served one after another,     *)
(* with the store up and the oracle either always answering or always      *)
(* rejecting.  The answered requests are counted, up to MaxServed.         *)
(***************************************************************************)
MaxServed == 3

\* PfRespond, counted.
PfRespondCounted(r) ==
    /\ pf[r].pc = "done"
    /\ pf' = [pf EXCEPT ![r] = IdlePf]
    /\ served' = served + 1
    /\ UNCHANGED <<cf, store, env, writes, gs, ps>>

InitDrain ==
    /\ env \in {[ai |-> "up", db |-> "up"], [ai |-> "down", db |-> "up"]}
    /\ \E n \in 0..MaxRows : store = [id \in 1..n |-> NewRow(SampleText(id))]
    /\ writes = [id \in DOMAIN store |-> 0]
    /\ pf = [r \in Requests |-> IdlePf]
    /\ cf = IdleCf
    /\ gs = IdleGs
    /\ ps = IdlePs
    /\ served = 0

\* A request arrives only when no other is being served.
NextDrain ==
    \E r \in Requests :
        \/ /\ \A q \in Requests : pf[q].pc = "idle"
           /\ served < MaxServed
           /\ PfSelect(r)
        \/ PfClassify(r)
        \/ PfUpdate(r)
        \/ PfRespondCounted(r)

\* Requests keep arriving and the runtime resumes every awaited call.
SpecDrain == InitDrain /\ [][NextDrain]_vars /\ WF_vars(NextDrain)

(***************************************************************************)
(* generateSummary                                                         *)
(***************************************************************************)
Today == "2026-01-18"

\* ORDER BY urgency DESC, sentiment ASC compares the stored strings.
TextRank(w) ==
    CASE w = "high" -> 1 [] w = "low" -> 2 [] w = "medium" -> 3
      [] w = "negative" -> 1 [] w = "neutral" -> 2 [] w = "positive" -> 3
\* a sorts before b
SortsBefore(a, b) ==
    \/ TextRank(a.urgency) > TextRank(b.urgency)
    \/ (a.urgency = b.urgency /\ TextRank(a.sentiment) < TextRank(b.sentiment))

RECURSIVE InsertSorted(_, _)
InsertSorted(row, sorted) ==
    IF sorted = <<>> THEN <<row>>
    ELSE IF SortsBefore(row, Head(sorted)) THEN <<row>> \o sorted
    ELSE <<Head(sorted)>> \o InsertSorted(row, Tail(sorted))

\* SELECT content, sentiment, urgency ... WHERE DATE(created_at) = ? AND
\* sentiment IS NOT NULL AND urgency IS NOT NULL ORDER BY ...; rows that
\* compare equal keep their rowid order.
RECURSIVE SelectClassified(_, _)
SelectClassified(table, n) ==
    IF n = 0 THEN <<>>
    ELSE LET row == table[n]
             before == SelectClassified(table, n - 1)
         IN  IF row.created_at = Today /\ row.sentiment # NULL /\ row.urgency # NULL
             THEN LET r == [content |-> row.content, sentiment |-> row.sentiment,
                            urgency |-> row.urgency]
                  IN  IF \E k \in 1..Len(before) : SortsBefore(r, before[k])
                      THEN InsertSorted(r, before) ELSE Append(before, r)
             ELSE before

\* A check that lets an empty result through.
NoFeedbackUnlessFailed(db, rows) == db = "unsuccessful"

\* !result.success || !result.results || result.results.length === 0
NoFeedback(db, rows) == db = "unsuccessful" \/ rows = <<>>

\* Array.prototype.join's string for one element.
RECURSIVE ToJoinString(_), JoinWith(_, _)
ToJoinString(v) ==
    CASE v.ty \in {"undef", "null"} -> <<>>
      [] v.ty = "str" -> v.s
      [] v.ty = "num" -> v.n
      [] v.ty = "bool" -> IF v.b THEN <<"true">> ELSE <<"false">>
      [] v.ty = "arr" -> JoinWith(v.a, <<",">>)
      [] v.ty = "obj" -> <<"[object Object]">>
JoinWith(xs, sep) ==
    IF xs = <<>> THEN <<>>
    ELSE IF Len(xs) = 1 THEN ToJoinString(xs[1])
    ELSE ToJoinString(xs[1]) \o sep \o JoinWith(Tail(xs), sep)

IsArray(v) == v.ty = "arr"

\* item.type === 'message' && item.content && Array.isArray(item.content)
IsMessage(item) ==
    /\ Get(item, Key("type")) = Word("message")
    /\ Truthy(Get(item, Key("content")))
    /\ IsArray(Get(item, Key("content")))
\* c.type === 'output_text' && c.text
IsOutputText(c) == Get(c, Key("type")) = Word("output_text") /\ Truthy(Get(c, Key("text")))

\* Array.prototype.filter is SelectSeq.
RECURSIVE FlatContent(_)
\* .flatMap(item => item.content)
FlatContent(items) ==
    IF items = <<>> THEN <<>> ELSE Get(Head(items), Key("content")).a \o FlatContent(Tail(items))

\* The filter/flatMap/filter/map chain throws a TypeError when an entry of
\* output, or a block of a message's content, is null or undefined.
ChainThrows(output) ==
    \/ \E k \in 1..Len(output.a) : IsNullish(output.a[k])
    \/ LET blocks == FlatContent(SelectSeq(output.a, IsMessage))
       IN  \E k \in 1..Len(blocks) : IsNullish(blocks[k])

\* textParts of an output whose chain does not throw.
TextParts(output) ==
    LET blocks == SelectSeq(FlatContent(SelectSeq(output.a, IsMessage)), IsOutputText)
    IN  [k \in 1..Len(blocks) |-> Get(blocks[k], Key("text"))]

\* parsed.output && Array.isArray(parsed.output)
HasEntryList(parsed) == Truthy(Get(parsed, Key("output"))) /\ IsArray(Get(parsed, Key("output")))

\* The catch block of the unwrapping.
UnwrapCaught(aiResponse) == IF IsString(aiResponse) THEN aiResponse ELSE StringifyTop(aiResponse)

\* An unwrapping that goes on to the response field when the entry list
\* yields no text.
UnwrapByPriority(aiResponse) ==
    LET p == IF IsString(aiResponse) THEN JSONparse(aiResponse.s) ELSE ParseOk(aiResponse, 0)
    IN  IF ~p.ok \/ IsNullish(p.v) THEN UnwrapCaught(aiResponse)
        ELSE LET parsed == p.v
                 output == Get(parsed, Key("output"))
                 hasList == HasEntryList(parsed)
             IN  IF hasList /\ ChainThrows(output) THEN UnwrapCaught(aiResponse)
                 ELSE IF hasList /\ JoinWith(TextParts(output), <<>>) # <<>>
                      THEN JStr(JoinWith(TextParts(output), <<>>))
                 ELSE IF Truthy(Get(parsed, Key("response"))) THEN Get(parsed, Key("response"))
                 ELSE StringifyTop(parsed)

\* "Extract text from gpt-oss-120b response format": summaryText, a
\* JavaScript value, for the value the oracle resolved to.
Unwrap(aiResponse) ==
    LET p == IF IsString(aiResponse) THEN JSONparse(aiResponse.s) ELSE ParseOk(aiResponse, 0)
    IN  IF ~p.ok \/ IsNullish(p.v) THEN UnwrapCaught(aiResponse)
        ELSE LET parsed == p.v
                 output == Get(parsed, Key("output"))
             IN  IF HasEntryList(parsed)
                 THEN IF ChainThrows(output) THEN UnwrapCaught(aiResponse)
                      ELSE OrElse(JStr(JoinWith(TextParts(output), <<>>)), StringifyTop(parsed))
                 ELSE IF Truthy(Get(parsed, Key("response"))) THEN Get(parsed, Key("response"))
                 ELSE StringifyTop(parsed)

\* The rows a table can hold: never classified, or classified by an earlier
\* processFeedback request, created on the summary's day or the day before.
MaxSummaryRows == 2
StoredRows ==
    {[NewRow(<<"Love", "ok">>) EXCEPT !.created_at = d] : d \in {Today, "2026-01-17"}}
    \cup {[content |-> <<"hate", "urgent">>, sentiment |-> c[1], urgency |-> c[2], created_at |-> d] :
            c \in {<<"negative", "high">>, <<"positive", "medium">>, <<"neutral", "low">>},
            d \in {Today, "2026-01-17"}}

\* A narrative text, and the shapes the oracle may wrap it in.
Narrative == <<"*", "*", "Summary", "*", "*", NL, "Deploys", SP, "fail">>
TextBlock(text) == JObj(<<P(Key("type"), Word("output_text")), P(Key("text"), text)>>)
MessageItem(blocks) == JObj(<<P(Key("type"), Word("message")), P(Key("content"), JArr(blocks))>>)
ReasoningItem == JObj(<<P(Key("type"), Word("reasoning")),
                        P(Key("content"), JArr(<<JObj(<<P(Key("type"), Word("reasoning_text")),
                                                       P(Key("text"), JStr(<<"hmm">>))>>)>>))>>)
WithOutput(items) == JObj(<<P(Key("output"), JArr(items))>>)
WithResponse(v) == JObj(<<P(Key("response"), v)>>)
WithBoth(items, v) == JObj(<<P(Key("output"), JArr(items)), P(Key("response"), v)>>)

SummaryObjects ==
    { WithResponse(JStr(Narrative)), WithResponse(JStr(<<>>)), WithResponse(JNum(<<"5">>)),
      WithResponse(JObj(<<P(Key("text"), JStr(Narrative))>>)), WithResponse(JNull),
      WithOutput(<<>>),
      WithOutput(<<MessageItem(<<TextBlock(JStr(Narrative))>>)>>),
      WithOutput(<<ReasoningItem, MessageItem(<<TextBlock(JStr(<<"Deploys">>)), TextBlock(JStr(<<SP, "fail">>))>>)>>),
      WithOutput(<<ReasoningItem>>),
      WithOutput(<<MessageItem(<<TextBlock(JStr(<<>>))>>)>>),
      WithOutput(<<MessageItem(<<TextBlock(JNum(<<"5">>))>>)>>),
      WithOutput(<<JObj(<<P(Key("content"), JArr(<<JObj(<<P(Key("text"), JStr(Narrative))>>)>>))>>)>>),
      WithOutput(<<JNull>>),
      WithOutput(<<MessageItem(<<JNull>>)>>),
      WithOutput(<<JNum(<<"5">>), MessageItem(<<JStr(<<"x">>)>>)>>),
      WithBoth(<<>>, JStr(Narrative)),
      WithBoth(<<ReasoningItem>>, JStr(Narrative)),
      WithBoth(<<MessageItem(<<TextBlock(JStr(<<"Deploys">>))>>)>>, JStr(Narrative)),
      JObj(<<P(Key("output"), JStr(<<"text">>)), P(Key("response"), JStr(Narrative))>>),
      JObj(<<>>) }

\* What the oracle may resolve to: each object as a value and as the JSON
\* string of it, plain text, and the other JSON values.
SummaryValues ==
    SummaryObjects
    \cup {JStr(Stringify(o)) : o \in SummaryObjects}
    \cup { JStr(Narrative), JStr(<<>>), JStr(<<"5">>), JStr(<<"null">>), JStr(Stringify(JStr(Narrative))),
           JStr(<<"{", "oops">>), JNull, JNum(<<"5">>), JBool(TRUE), JArr(<<JStr(Narrative)>>) }

StartGs == [pc |-> "idle", query |-> "none", feedbackData |-> <<>>, aiCalls |-> 0,
            ai |-> None, summaryText |-> JUndef, response |-> None]

\* The request arrives and its SELECT settles: a thrown error goes to the
\* outer catch, an empty or unsuccessful result returns the message, and
\* otherwise the prompt is built and the oracle call is issued.
GsQuery ==
    /\ gs.pc = "idle"
    /\ \E db \in DbOutcomes(env.db) :
          LET rows == SelectClassified(store, Len(store))
          IN  gs' = IF db = "throws"
                    THEN [gs EXCEPT !.pc = "done", !.query = db,
                                    !.response = Response(500, [error |-> "D1_ERROR"])]
                    ELSE IF NoFeedback(db, rows)
                    THEN [gs EXCEPT !.pc = "done", !.query = db,
                                    !.response = Response(200,
                                        [date |-> Today,
                                         message |-> "No processed feedback found for the specified date"])]
                    ELSE [gs EXCEPT !.pc = "oracle", !.query = db, !.feedbackData = rows,
                                    !.aiCalls = @ + 1]
    /\ UNCHANGED <<cf, store, env, pf, writes, ps, served>>

\* The oracle call settles: a rejection goes to the outer catch; a value is
\* unwrapped and returned.  JSON.stringify leaves out summary: undefined.
GsOracle ==
    /\ gs.pc = "oracle"
    /\ \E o \in {Rejected} \cup {Resolved(v) : v \in SummaryValues} :
          gs' = IF o.kind = "rejected"
                THEN [gs EXCEPT !.pc = "done", !.ai = o,
                                !.response = Response(500, [error |-> "AI.run rejected"])]
                ELSE LET summaryText == Unwrap(o.v)
                     IN  [gs EXCEPT !.pc = "done", !.ai = o, !.summaryText = summaryText,
                            !.response = Response(200,
                                IF summaryText.ty = "undef"
                                THEN [date |-> Today, feedback_count |-> Len(gs.feedbackData)]
                                ELSE [date |-> Today, summary |-> summaryText,
                                      feedback_count |-> Len(gs.feedbackData)])]
    /\ UNCHANGED <<cf, store, env, pf, writes, ps, served>>

InitSummary ==
    /\ env = [ai |-> "flaky", db |-> "flaky"]
    /\ \E n \in 0..MaxSummaryRows : store \in [1..n -> StoredRows]
    /\ writes = [id \in DOMAIN store |-> 0]
    /\ gs = StartGs
    /\ pf = <<>>
    /\ cf = IdleCf
    /\ ps = IdlePs
    /\ served = 0

NextSummary == GsQuery \/ GsOracle

SpecSummary == InitSummary /\ [][NextSummary]_vars

(***************************************************************************)
(* The two routes of the worker together: a behaviour serves GET /process  *)
(* requests or a GET /summary request.                                     *)
(***************************************************************************)
InitRoutes == InitBatch \/ InitSummary

NextRoutes == NextSummary \/ (pf # <<>> /\ NextBatch)

SpecRoutes == InitRoutes /\ [][NextRoutes]_vars

(***************************************************************************)
(* parseSummary and extractBullets                                         *)
(***************************************************************************)
Stars == <<Lit("*"), Lit("*")>>
\* (?=\n\*\*|$)
NextHeaderOrEnd == Look({<<Lit(NL)>> \o Stars, <<End>>})
\* \s*\n? before the capture group
Gap == <<Star("sp"), Opt("nl")>>

\* /\*\*<name>[:\*]?\*\*\s*\n?(...)(?=\n\*\*|$)/ and
\* /<name>[:\-]?\s*\n?(...)(?=\n\*\*|$)/, name a pattern for the header's
\* words and group the capture group.
BoldHeader(name, group) ==
    Stars \o name \o <<Opt("colstar")>> \o Stars \o Gap \o <<group, NextHeaderOrEnd>>
PlainHeader(name, group) ==
    name \o <<Opt("coldash")>> \o Gap \o <<group, NextHeaderOrEnd>>

\* (.+?) under the s flag, and ([\s\S]*?)
OneOrMore == Cap(1, "any")
AnyText == Cap(0, "any")

KeyThemes == <<Lit("Key"), Star("sp"), Lit("Themes")>>
Top3Themes == <<Lit("Top"), Star("sp"), Lit("3"), Star("sp"), Lit("Themes")>>
CriticalIssues == <<Lit("Critical"), Star("sp"), Lit("Issues")>>

\* The alternatives of each section, in the order of the || chain.
HeadlinePatterns ==
    << BoldHeader(<<Lit("Summary")>>, OneOrMore), BoldHeader(<<Lit("Headline")>>, OneOrMore),
       PlainHeader(<<Lit("Summary")>>, OneOrMore), PlainHeader(<<Lit("Headline")>>, OneOrMore) >>
ThemesPatterns ==
    << BoldHeader(KeyThemes, AnyText), BoldHeader(Top3Themes, AnyText),
       PlainHeader(KeyThemes, AnyText), PlainHeader(Top3Themes, AnyText) >>
IssuesPatterns ==
    << BoldHeader(CriticalIssues, AnyText), PlainHeader(CriticalIssues, AnyText) >>
RecPatterns ==
    << BoldHeader(<<Lit("Recommendation")>>, AnyText), PlainHeader(<<Lit("Recommendation")>>, AnyText) >>

\* a.match(p1) || a.match(p2) || ...: the match of the first pattern that
\* matches, NotFound (null) when none does.
RECURSIVE FirstMatch(_, _)
FirstMatch(text, patterns) ==
    IF patterns = <<>> THEN NotFound
    ELSE OrElseMatch(match(text, Head(patterns)), FirstMatch(text, Tail(patterns)))

\* xMatch ? xMatch[1] : ''
GroupOrEmpty(m) == IF m.ok THEN m.cap ELSE <<>>
SectionText(text, patterns) == GroupOrEmpty(FirstMatch(text, patterns))

\* /[•\*\-\+]\s*(.+?)(?=\n[•\*\-\+]|\n\n|$)/g
bulletRegex ==
    << Cls("bullet"), Star("sp"), Cap(1, "dot"),
       Look({<<Lit(NL), Cls("bullet")>>, <<Lit(NL), Lit(NL)>>, <<End>>}) >>
\* /\d+[\.\)]\s*(.+?)(?=\n\d+[\.\)]|\n\n|$)/g
numberedRegex ==
    << Plus("digit"), Cls("dotparen"), Star("sp"), Cap(1, "dot"),
       Look({<<Lit(NL), Plus("digit"), Cls("dotparen")>>, <<Lit(NL), Lit(NL)>>, <<End>>}) >>

Trimmed(ss) == [k \in 1..Len(ss) |-> trim(ss[k])]
NonEmpty(b) == Len(b) > 0

\* if (bullets.length === 0) bullets.push(...lines)
OrLines(bullets, text) ==
    IF Len(bullets) = 0 THEN SelectSeq(Trimmed(split(text)), NonEmpty) ELSE bullets

extractBullets(text) ==
    SelectSeq(OrLines(Trimmed(ExecAll(bulletRegex, text, 1)) \o Trimmed(ExecAll(numberedRegex, text, 1)),
                      text),
              NonEmpty)

\* Array.prototype.slice(0, n)
slice(xs, n) == SubSeq(xs, 1, Min(n, Len(xs)))

NoHeadline == <<"No headline available">>
\* A headline that is left empty when no pattern matched.
HeadlineOrEmpty(headlineMatch) == IF headlineMatch.ok THEN trim(headlineMatch.cap) ELSE <<>>

\* headlineMatch ? headlineMatch[1].trim() : 'No headline available'
HeadlineOf(headlineMatch) == IF headlineMatch.ok THEN trim(headlineMatch.cap) ELSE NoHeadline

\* A parseSummary that returns the lists as extracted.
parseSummaryUncapped(summaryText) ==
    [headline |-> HeadlineOf(FirstMatch(summaryText, HeadlinePatterns)),
     themes |-> extractBullets(SectionText(summaryText, ThemesPatterns)),
     criticalIssues |-> extractBullets(SectionText(summaryText, IssuesPatterns)),
     recommendation |-> extractBullets(SectionText(summaryText, RecPatterns))]

parseSummary(summaryText) ==
    LET headline == HeadlineOf(FirstMatch(summaryText, HeadlinePatterns))
        themes == extractBullets(SectionText(summaryText, ThemesPatterns))
        criticalIssues == extractBullets(SectionText(summaryText, IssuesPatterns))
        recommendation == extractBullets(SectionText(summaryText, RecPatterns))
    IN  [headline |-> headline,
         themes |-> slice(themes, 3),
         criticalIssues |-> slice(criticalIssues, 3),
         recommendation |-> slice(recommendation, 2)]

\* parseSummary(summaryData.summary) in renderDashboard: the value read from
\* the summary response is used as a string, a value of another type has no
\* match method and the call throws inside renderDashboard's try.
parseSummaryCall(summary) ==
    IF IsString(summary) THEN [kind |-> "returned", parsed |-> parseSummary(summary.s)]
    ELSE Threw("TypeError")

\* Summary texts: up to MaxLines lines joined by "\n", and the instances of
\* the template the prompt asks the model to follow.
MaxLines == 3
Bold(words) == <<"*", "*">> \o words \o <<"*", "*">>
Bullet(item) == <<Blt, SP>> \o item
SummaryLines ==
    { Bold(<<"Summary">>),
      <<"Headline", ":", SP, "up">>,
      Bold(<<"Key", SP, "Themes">>),
      <<"top", SP, "3", SP, "themes", ":">>,
      Bold(<<"Critical", SP, "Issues", ":">>),
      Bold(<<"Recommendation">>),
      Bullet(<<"a">>),
      <<"-", SP, "b", NL, "*", "c">>,
      <<"1", ".", SP, "d">>,
      <<"2", ")", SP, "x", NL>>,
      Bullet(<<"v", "2", ".", "1">>),
      <<"e", SP, "f">>,
      <<>> }

JoinLines(ls) == JoinSeqs(ls, <<NL>>)

Template(h, a, b, c, d) ==
    JoinLines(<< Bold(<<"Summary">>), h, <<>>,
                 Bold(<<"Key", SP, "Themes">>), Bullet(a), Bullet(b), <<>>,
                 Bold(<<"Critical", SP, "Issues">>), Bullet(c), <<>>,
                 Bold(<<"Recommendation">>), Bullet(d) >>)

\* Header-free single-line texts.
Headlines == {<<"h">>, <<"Deploys", SP, "fail">>}
Items == {<<"a">>, <<"well", "-", "known">>}
SummaryTexts ==
    {JoinLines(ls) : ls \in SeqsUpTo(SummaryLines, MaxLines)}
    \cup {Template(h, a, b, c, d) : h \in Headlines, a \in Items, b \in Items, c \in Items, d \in Items}
SummaryFields == {JStr(t) : t \in SummaryTexts} \cup {JNum(<<"5">>), JNull}

ParseCall ==
    /\ ps.out = Pending
    /\ ps' = [ps EXCEPT !.out = parseSummaryCall(ps.summary)]
    /\ UNCHANGED <<cf, store, env, pf, writes, gs, served>>

InitParse ==
    /\ ps \in {[summary |-> v, out |-> Pending] : v \in SummaryFields}
    /\ store = <<>>
    /\ writes = <<>>
    /\ env = [ai |-> "up", db |-> "up"]
    /\ pf = <<>>
    /\ cf = IdleCf
    /\ gs = IdleGs
    /\ served = 0

NextParse == ParseCall

SpecParse == InitParse /\ [][NextParse]_vars

(***************************************************************************)
(* Properties of classifyFeedback (checked under SpecClassify)             *)
(***************************************************************************)
CallSettled == cf.ai.kind \in {"rejected", "resolved"}
OracleFailed == cf.ai = Rejected \/ (cf.ai.kind = "resolved" /\ IsNullish(cf.ai.v))

\* C1: whatever the oracle resolves to (an empty string, text without a JSON
\* object, malformed JSON, JSON whose fields are missing or outside the
\* enums), classifyFeedback returns a result, and every result it returns has
\* its sentiment among positive/negative/neutral and its urgency among
\* high/medium/low.
C1_ResultInEnums ==
    /\ (cf.ai.kind = "resolved" /\ ~IsNullish(cf.ai.v)) => cf.out.kind = "returned"
    /\ cf.out.kind = "returned" =>
          /\ cf.out.result.sentiment \in Sentiments
          /\ cf.out.result.urgency \in Urgencies

\* The oracle answered a JSON object whose sentiment is no enum literal, it
\* parsed, and the result holds the default.
C1_Witness ==
    /\ cf.out.kind = "returned"
    /\ ~cf.out.fallback
    /\ cf.ai.v = JObj(<<P(Key("response"),
                          JStr(<<"{">> \o Member("sentiment", Quoted("Negative")) \o <<",">>
                               \o Member("urgency", <<"5">>) \o <<"}">>))>>)
    /\ cf.out.result = [sentiment |-> "neutral", urgency |-> "low"]

\* C2 as stated: classifyFeedback never raises; a rejected oracle call or a
\* null/absent oracle value still yields the keyword-fallback result.
C2_NeverRaises ==
    CallSettled =>
        /\ cf.out.kind = "returned"
        /\ OracleFailed =>
              /\ cf.out.fallback
              /\ cf.out.result = Normalize(KeywordFallback(cf.text))

\* C2 amended: classifyFeedback absorbs the failures of its extraction step
\* only (no {...} span, a span JSON.parse rejects, a response text that is no
\* string): those yield the keyword-fallback result.  It throws exactly when
\* the oracle call rejects or resolves to null/undefined.
C2_RaisesOnlyOnFailedCall ==
    CallSettled =>
        /\ cf.out.kind = "threw" <=> OracleFailed
        /\ cf.out.kind = "returned" <=> ~OracleFailed
        /\ (cf.out.kind = "returned" /\ cf.out.fallback) =>
              cf.out.result = Normalize(KeywordFallback(cf.text))

\* The oracle call rejected and classifyFeedback threw.
C2_Witness == cf.ai = Rejected /\ cf.out.kind = "threw"

\* The keyword rule of the specification, stated on the lower-cased chunks.
PositiveWords == {"great", "love", "excellent"}
NegativeWords == {"bad", "hate", "terrible"}
HighWords == {"urgent", "asap", "critical"}
MediumWords == {"soon", "important"}
Mentions(text, words) == \E i \in 1..Len(text) : LowerChunk(text[i]) \in words
RuleSentiment(text) ==
    IF Mentions(text, PositiveWords) THEN "positive"
    ELSE IF Mentions(text, NegativeWords) THEN "negative" ELSE "neutral"
RuleUrgency(text) ==
    IF Mentions(text, HighWords) THEN "high"
    ELSE IF Mentions(text, MediumWords) THEN "medium" ELSE "low"

\* The response text of a settled call exists and holds no parseable object.
NoParseableObject ==
    /\ cf.ai.kind = "resolved"
    /\ ~IsNullish(cf.ai.v)
    /\ ~ExtractCandidate(OrElse(Get(cf.ai.v, Key("response")), StringifyTop(cf.ai.v))).ok

\* C8: when the oracle's response yields no parseable JSON object, the result
\* is the ordered keyword rule on the lower-cased text: positive before
\* negative before neutral, high before medium before low.
C8_FallbackIsKeywordRule ==
    NoParseableObject =>
        /\ cf.out.kind = "returned"
        /\ cf.out.result.sentiment = RuleSentiment(cf.text)
        /\ cf.out.result.urgency = RuleUrgency(cf.text)
        /\ (Mentions(cf.text, {"love"}) /\ ~Mentions(cf.text, NegativeWords))
              => cf.out.result.sentiment = "positive"
        /\ ~Mentions(cf.text, PositiveWords \cup NegativeWords \cup HighWords \cup MediumWords)
              => cf.out.result = [sentiment |-> "neutral", urgency |-> "low"]

\* A text with a positive and a negative word and an upper-case urgency
\* word, answered without JSON: positive wins, and Soon counts as soon.
C8_Witness ==
    /\ NoParseableObject
    /\ cf.text \in {<<"hate", "Love">>, <<"Soon", "hate">>}
    /\ cf.out.kind = "returned"
    /\ cf.out.result \in {[sentiment |-> "positive", urgency |-> "low"],
                          [sentiment |-> "negative", urgency |-> "medium"]}

(***************************************************************************)
(* Properties of processFeedback (checked under Spec)                      *)
(***************************************************************************)
Done(r) == pf[r].pc = "done"
\* The request ran a batch of ten rows with the oracle down for every item.
OutageBatchDone(r) == Done(r) /\ env.ai = "down" /\ Len(pf[r].rows) = BatchLimit
RowIds(st) == {st.rows[k].id : k \in 1..Len(st.rows)}
Ids(entries) == {entries[k].id : k \in 1..Len(entries)}

\* C3 as stated: a batch of 10 with the oracle unavailable for all reports 10
\* processed results, all by the fallback, no errors, and no item of the
\* batch is left unclassified.
C3_OutageAbsorbed ==
    \A r \in Requests : OutageBatchDone(r) =>
        /\ pf[r].response.body.processed = BatchLimit
        /\ \A k \in 1..Len(pf[r].processed) : pf[r].processed[k].fallback
        /\ pf[r].errors = <<>>
        /\ \A id \in RowIds(pf[r]) : ~Unclassified(store[id])

\* C3 amended: a batch of 10 with the oracle call rejecting for every item
\* reports 0 processed results and 10 errors, one per item in order, and
\* every item of the batch is still unclassified.
C3_OutageReported ==
    \A r \in Requests : OutageBatchDone(r) =>
        /\ pf[r].response.status = 200
        /\ pf[r].response.body.processed = 0
        /\ pf[r].response.body.items = <<>>
        /\ Len(pf[r].response.body.errors) = BatchLimit
        /\ \A k \in 1..BatchLimit : pf[r].response.body.errors[k].id = pf[r].rows[k].id
        /\ \A id \in RowIds(pf[r]) : Unclassified(store[id]) /\ writes[id] = 0

C3_Witness ==
    \E r \in Requests : OutageBatchDone(r) /\ Len(pf[r].errors) = BatchLimit /\ Len(store) > BatchLimit

\* C4: a failure classifying or writing one item is recorded as that item's
\* error and neither stops nor undoes the others: every row of the batch ends
\* in exactly one of processed and errors, the rows written stay written, and
\* the response carries the count of successes and the list of failures.
C4_ItemFailuresIsolated ==
    \A r \in Requests :
        /\ \A k \in 1..Len(pf[r].processed) :
              /\ ~Unclassified(store[pf[r].processed[k].id])
              /\ writes[pf[r].processed[k].id] >= 1
        /\ (Done(r) /\ pf[r].rows # <<>>) =>
              /\ Ids(pf[r].processed) \cup Ids(pf[r].errors) = RowIds(pf[r])
              /\ Len(pf[r].processed) + Len(pf[r].errors) = Len(pf[r].rows)
              /\ pf[r].response.status = 200
              /\ pf[r].response.body.processed = Len(pf[r].processed)
              /\ pf[r].response.body.items = pf[r].processed
              /\ IF pf[r].errors = <<>>
                 THEN "errors" \notin DOMAIN pf[r].response.body
                 ELSE pf[r].response.body.errors = pf[r].errors

\* The first item failed and the second was still classified and written.
C4_Witness ==
    \E r \in Requests :
        /\ Done(r)
        /\ Ids(pf[r].errors) = {1}
        /\ Ids(pf[r].processed) = {2}
        /\ ~Unclassified(store[2])

(***************************************************************************)
(* Properties of generateSummary (checked under SpecSummary)               *)
(***************************************************************************)
\* The batch of classified feedback for the period, as the table holds it.
BatchOfPeriod == SelectClassified(store, Len(store))

Parsed ==
    IF IsString(gs.ai.v) THEN JSONparse(gs.ai.v.s).v ELSE gs.ai.v
\* The unwrapping ran on an object and none of its steps threw.
UnwrappedEnvelope ==
    /\ gs.pc = "done"
    /\ gs.ai.kind = "resolved"
    /\ IsString(gs.ai.v) => JSONparse(gs.ai.v.s).ok
    /\ Parsed.ty = "obj"
    /\ ~(HasEntryList(Parsed) /\ ChainThrows(Get(Parsed, Key("output"))))
\* The concatenated text of the entry list; nothing when there is no list.
EntryText ==
    IF HasEntryList(Parsed) THEN JoinWith(TextParts(Get(Parsed, Key("output"))), <<>>) ELSE <<>>
ResponseField == Get(Parsed, Key("response"))

\* C9 as stated: the text of the entry list; if that yields nothing (list
\* absent, empty, or without a matching block), the response field when
\* present; only then the stringified whole object.
C9_ThreeStepPriority ==
    UnwrappedEnvelope =>
        /\ EntryText # <<>> => gs.summaryText = JStr(EntryText)
        /\ (EntryText = <<>> /\ Truthy(ResponseField)) => gs.summaryText = ResponseField
        /\ (EntryText = <<>> /\ ~Truthy(ResponseField)) => gs.summaryText = JStr(Stringify(Parsed))

\* C9 amended: the response field is consulted only when the envelope has no
\* entry list (output absent or no array).  An entry list that yields text
\* unwraps to that text, and one that yields none unwraps to the stringified
\* whole object even when a response field is present.
C9_ResponseOnlyWithoutList ==
    UnwrappedEnvelope =>
        /\ (HasEntryList(Parsed) /\ EntryText # <<>>) => gs.summaryText = JStr(EntryText)
        /\ (HasEntryList(Parsed) /\ EntryText = <<>>) => gs.summaryText = JStr(Stringify(Parsed))
        /\ (~HasEntryList(Parsed) /\ Truthy(ResponseField)) => gs.summaryText = ResponseField
        /\ (~HasEntryList(Parsed) /\ ~Truthy(ResponseField)) => gs.summaryText = JStr(Stringify(Parsed))

\* An envelope with an empty entry list and a response text unwrapped to the
\* stringified envelope.
C9_Witness ==
    /\ UnwrappedEnvelope
    /\ gs.ai.v = WithBoth(<<>>, JStr(Narrative))
    /\ gs.summaryText = JStr(Stringify(gs.ai.v))
    /\ gs.summaryText # JStr(Narrative)

\* C10: whatever the oracle resolves to, the unwrapping does not fail and
\* yields a text string: a plain non-JSON string yields itself, and the
\* worst case is the stringified raw value.
C10_AlwaysText ==
    gs.ai.kind = "resolved" =>
        /\ gs.pc = "done"
        /\ gs.response.status = 200
        /\ IsString(gs.summaryText)
        /\ (IsString(gs.ai.v) /\ ~JSONparse(gs.ai.v.s).ok) => gs.summaryText = gs.ai.v

(***************************************************************************)
(* Properties of parseSummary (checked under SpecParse)                    *)
(***************************************************************************)
ParseSettled == ps.out # Pending /\ IsString(ps.summary)

\* C5: for every input string (the empty string and header-free text
\* included) parseSummary returns, without throwing, a value with at most 3
\* themes, at most 3 criticalIssues, at most 2 recommendation entries and a
\* headline that is a string.
C5_TotalAndBounded ==
    ParseSettled =>
        /\ ps.out.kind = "returned"
        /\ Len(ps.out.parsed.themes) <= 3
        /\ Len(ps.out.parsed.criticalIssues) <= 3
        /\ Len(ps.out.parsed.recommendation) <= 2
        /\ ps.out.parsed.headline \in Seq(STRING)

\* A text whose Key Themes section holds more than 3 bullets was parsed and
\* the first 3 were returned.
C5_Witness ==
    /\ ParseSettled
    /\ LET themes == extractBullets(SectionText(ps.summary.s, ThemesPatterns))
       IN  /\ Len(themes) > 3
           /\ ps.out.parsed.themes = SubSeq(themes, 1, 3)

\* C6: parsing the canonical template built from header-free single-line
\* texts h, a, b, c, d yields headline = h, themes = [a, b],
\* criticalIssues = [c], recommendation = [d]: no entry keeps its bullet
\* marker and none is lost.
C6_RoundTrip ==
    \A h \in Headlines, a \in Items, b \in Items, c \in Items, d \in Items :
        (ps.summary = JStr(Template(h, a, b, c, d)) /\ ps.out # Pending) =>
            ps.out = [kind |-> "returned",
                      parsed |-> [headline |-> h, themes |-> <<a, b>>,
                                  criticalIssues |-> <<c>>, recommendation |-> <<d>>]]

(***************************************************************************)
(* Properties of the store under processFeedback (checked under Spec)      *)
(***************************************************************************)
\* C11: after any sequence of processFeedback runs, with any mix of oracle
\* and store failures, every row has sentiment and urgency both unset or
\* both set to values of their enums.
C11_BothOrNeither ==
    \A id \in DOMAIN store :
        \/ store[id].sentiment = NULL /\ store[id].urgency = NULL
        \/ store[id].sentiment \in Sentiments /\ store[id].urgency \in Urgencies

\* A request is over with one row written and another row's failure
\* recorded, the failed row still unset.
C11_Witness ==
    \E r \in Requests :
        /\ pf[r].pc = "done"
        /\ Len(pf[r].processed) > 0
        /\ Len(pf[r].errors) > 0
        /\ \E id \in DOMAIN store : store[id].sentiment # NULL /\ writes[id] > 0
        /\ \E id \in DOMAIN store : store[id].sentiment = NULL /\ store[id].urgency = NULL

\* C12: no row receives more than one UPDATE, over any interleaving of
\* processFeedback requests.
C12_AtMostOneUpdate == \A id \in DOMAIN writes : writes[id] <= 1

(***************************************************************************)
(* Reported failures of both routes (checked under SpecRoutes)             *)
(***************************************************************************)
\* The response of the outer catch: status 500, body {error: String(error)}.
IsErrorResponse(resp) == resp.status = 500 /\ DOMAIN resp.body = {"error"}

\* The early return of the empty check: status 200, a message and no error.
IsMessageResponse(resp) ==
    /\ resp.status = 200
    /\ "message" \in DOMAIN resp.body
    /\ "error" \notin DOMAIN resp.body

\* The processFeedback requests that have returned.
Returned == {r \in DOMAIN pf : pf[r].pc = "done"}

\* C13 as stated: in processFeedback and generateSummary a store query that
\* throws or reports success = false, and a rejected oracle call of
\* generateSummary, all produce the error response.
C13_FailuresAreErrors ==
    /\ \A r \in Returned :
          pf[r].query \in {"throws", "unsuccessful"} => IsErrorResponse(pf[r].response)
    /\ gs.pc = "done" =>
          /\ gs.query \in {"throws", "unsuccessful"} => IsErrorResponse(gs.response)
          /\ gs.ai = Rejected => IsErrorResponse(gs.response)

\* C13, amended: a query that throws, and a rejected oracle call of
\* generateSummary, produce the status-500 {error} response; a query that
\* reports success = false produces the same status-200 {message} response
\* as an empty result.
C13_ThrownErrorsOnly ==
    /\ \A r \in Returned :
          /\ pf[r].query = "throws" => IsErrorResponse(pf[r].response)
          /\ pf[r].query = "unsuccessful" =>
                pf[r].response = Response(200, [message |-> "No unprocessed feedback found"])
    /\ gs.pc = "done" =>
          /\ gs.query = "throws" => IsErrorResponse(gs.response)
          /\ gs.ai = Rejected => IsErrorResponse(gs.response)
          /\ gs.query = "unsuccessful" =>
                /\ IsMessageResponse(gs.response)
                /\ gs.aiCalls = 0

\* A processFeedback request was answered after its query reported
\* success = false while unclassified rows were stored.
C13_Witness ==
    \E r \in Returned :
        /\ pf[r].query = "unsuccessful"
        /\ SelectUnclassified(store) # <<>>

(***************************************************************************)
(* Further properties of classifyFeedback (checked under SpecClassify)     *)
(***************************************************************************)
\* C14 as stated: called with an empty feedback text, classifyFeedback does
\* not invoke the oracle and does not return a ClassificationResult.
C14_EmptyTextRefused ==
    cf.text = <<>> => (cf.ai = None /\ cf.out.kind # "returned")

\* C14, amended: an empty feedback text is handled like any other text.  The
\* oracle is invoked; when the call yields a value the function returns a
\* result, which is (neutral, low) whenever the keyword fallback computed
\* it; it throws only when the oracle call failed.
C14_EmptyTextClassified ==
    (cf.text = <<>> /\ CallSettled) =>
        /\ cf.out.kind = "returned" <=> ~OracleFailed
        /\ cf.out.kind = "threw" => cf.out.error \in {"AI.run rejected", "TypeError"}
        /\ (cf.out.kind = "returned" /\ cf.out.fallback) =>
              cf.out.result = [sentiment |-> "neutral", urgency |-> "low"]

\* The text is empty, the oracle was called and answered without JSON, and
\* a result came back.
C14_Witness ==
    /\ cf.text = <<>>
    /\ cf.ai.kind = "resolved"
    /\ cf.out.kind = "returned"
    /\ cf.out.fallback

\* The oracle resolved to a value the function can read a field of.
Answered == cf.ai.kind = "resolved" /\ ~IsNullish(cf.ai.v) /\ cf.out.kind = "returned"

\* response.response || JSON.stringify(response) of the settled call.
ResponseText == OrElse(Get(cf.ai.v, Key("response")), StringifyTop(cf.ai.v))

\* The field when it is a string equal to one of the literals, else the default.
ExactOr(field, literals, default) ==
    IF field.ty = "str" /\ Len(field.s) = 1 /\ field.s[1] \in literals
    THEN field.s[1] ELSE default

\* The response text is exactly the object {"sentiment":"positive","urgency":5}.
ValidSentimentInvalidUrgency ==
    /\ IsString(ResponseText)
    /\ ResponseText.s = <<"{">> \o Member("sentiment", Quoted("positive")) \o <<",">>
                        \o Member("urgency", <<"5">>) \o <<"}">>

\* C16: when the oracle's JSON parses, each field of the result is decided
\* on its own and by exact match: a sentiment that is one of the three
\* literals is kept and any other value becomes neutral, an urgency that is
\* one of its three literals is kept and any other becomes low; the feedback
\* text plays no part, so a valid sentiment with an invalid urgency gives
\* (that sentiment, low).
C16_FieldsCoercedIndependently ==
    (Answered /\ ~cf.out.fallback) =>
        LET candidate == ExtractCandidate(ResponseText).v
        IN  /\ cf.out.result.sentiment =
                  ExactOr(Get(candidate, Key("sentiment")), Sentiments, "neutral")
            /\ cf.out.result.urgency =
                  ExactOr(Get(candidate, Key("urgency")), Urgencies, "low")
            /\ ValidSentimentInvalidUrgency =>
                  cf.out.result = [sentiment |-> "positive", urgency |-> "low"]

\* A text whose keywords say negative and high, answered with a valid
\* sentiment and the urgency 5: the result is (positive, low).
C16_Witness ==
    /\ Answered
    /\ ValidSentimentInvalidUrgency
    /\ RuleSentiment(cf.text) = "negative"
    /\ RuleUrgency(cf.text) = "high"
    /\ cf.out.result = [sentiment |-> "positive", urgency |-> "low"]

\* The response text is an object that parses, followed by a blank and a
\* closing brace.
ObjectThenBrace ==
    /\ IsString(ResponseText)
    /\ Len(ResponseText.s) >= 4
    /\ ResponseText.s[1] = "{"
    /\ SubSeq(ResponseText.s, Len(ResponseText.s) - 2, Len(ResponseText.s)) = <<"}", SP, "}">>
    /\ JSONparse(SubSeq(ResponseText.s, 1, Len(ResponseText.s) - 2)).ok

\* C17 as stated: when the response text holds a well-formed classification
\* object followed by text with a closing brace, the candidate is that first
\* object and the result carries its sentiment and urgency.
C17_FirstObjectIsCandidate ==
    (Answered /\ ObjectThenBrace) =>
        /\ ~cf.out.fallback
        /\ cf.out.result =
              Normalize(JSONparse(SubSeq(ResponseText.s, 1, Len(ResponseText.s) - 2)).v)

\* The positions of chunk c in t.
Positions(t, c) == {i \in 1..Len(t) : t[i] = c}

\* The text from its first opening brace to its last closing brace parses.
WidestSpanParses(t) ==
    /\ Positions(t, "{") # {}
    /\ Positions(t, "}") # {}
    /\ LET first == CHOOSE i \in Positions(t, "{") : \A j \in Positions(t, "{") : i <= j
           last == CHOOSE i \in Positions(t, "}") : \A j \in Positions(t, "}") : j <= i
       IN  first < last /\ JSONparse(SubSeq(t, first, last)).ok

\* C17, amended: the span taken from the response text runs from its first
\* opening brace to its last closing brace; the keyword fallback is used
\* exactly when there is no such span or that span does not parse.  A
\* well-formed object followed by text with a closing brace is therefore
\* not parsed, and the result is the keyword rule on the feedback text.
C17_WidestSpanIsCandidate ==
    (Answered /\ IsString(ResponseText)) =>
        /\ cf.out.fallback <=> ~WidestSpanParses(ResponseText.s)
        /\ ObjectThenBrace =>
              /\ cf.out.fallback
              /\ cf.out.result.sentiment = RuleSentiment(cf.text)
              /\ cf.out.result.urgency = RuleUrgency(cf.text)

\* The oracle answered {"sentiment":"positive"} followed by a closing
\* brace, and the result came from the keywords of a negative text.
C17_Witness ==
    /\ Answered
    /\ ObjectThenBrace
    /\ ResponseText.s = <<"{">> \o Member("sentiment", Quoted("positive")) \o <<"}", SP, "}">>
    /\ cf.out.fallback
    /\ cf.out.result.sentiment = "negative"

\* The oracle resolved to an object whose response field is absent or falsy.
NoTruthyResponse ==
    /\ cf.ai.kind = "resolved"
    /\ cf.ai.v.ty = "obj"
    /\ ~Truthy(Get(cf.ai.v, Key("response")))

\* C20: when the oracle resolves to an object with no truthy response field,
\* the candidate is the parse of the serialized object: the function
\* returns, the keyword fallback is not consulted, and the result is the
\* object's own top-level sentiment and urgency where they are enum
\* literals and (neutral, low) otherwise, whatever the feedback text and
\* whatever classification JSON the envelope's text holds.
C20_WholeObjectIsCandidate ==
    NoTruthyResponse =>
        /\ cf.out.kind = "returned"
        /\ ~cf.out.fallback
        /\ JSONparse(StringifyTop(cf.ai.v).s).ok
        /\ JSONparse(StringifyTop(cf.ai.v).s).v = cf.ai.v
        /\ cf.out.result.sentiment =
              ExactOr(Get(cf.ai.v, Key("sentiment")), Sentiments, "neutral")
        /\ cf.out.result.urgency =
              ExactOr(Get(cf.ai.v, Key("urgency")), Urgencies, "low")

\* The envelope holds the classification (negative, medium) in its text, the
\* feedback text has keywords, and the result is (neutral, low).
C20_Witness ==
    /\ cf.ai = Resolved(Envelope(ClassifierText))
    /\ cf.out.kind = "returned"
    /\ RuleSentiment(cf.text) # "neutral"
    /\ RuleUrgency(cf.text) # "low"
    /\ cf.out.result = [sentiment |-> "neutral", urgency |-> "low"]

(***************************************************************************)
(* Further properties of parseSummary (checked under SpecParse)            *)
(***************************************************************************)
NotSpace(c) == ~IsSpace(c)

\* The header words ws occur in t: compared without regard to case, and
\* with any white space between the words of a header left out, as the
\* patterns compare them.
Occurs(ws, t) ==
    \E i \in 1..Len(t) :
        LET rest == SelectSeq(toLowerCase(SubSeq(t, i, Len(t))), NotSpace)
        IN  /\ toLowerCase(<<t[i]>>) = <<ws[1]>>
            /\ Len(rest) >= Len(ws)
            /\ SubSeq(rest, 1, Len(ws)) = ws

\* C15: a section none of whose header tokens occurs in the text degrades on
\* its own: the headline to "No headline available", and themes,
\* criticalIssues and recommendation to the empty list; so a text with no
\* header token at all gives the placeholder and three empty lists.
C15_AbsentSectionsDegrade ==
    ParseSettled =>
        LET t == ps.summary.s
            out == ps.out.parsed
        IN  /\ (~Occurs(<<"summary">>, t) /\ ~Occurs(<<"headline">>, t))
                  => out.headline = NoHeadline
            /\ (~Occurs(<<"key", "themes">>, t) /\ ~Occurs(<<"top", "3", "themes">>, t))
                  => out.themes = <<>>
            /\ ~Occurs(<<"critical", "issues">>, t) => out.criticalIssues = <<>>
            /\ ~Occurs(<<"recommendation">>, t) => out.recommendation = <<>>

\* A text with a Key Themes section and nothing else: the themes are
\* returned, the headline is the placeholder and the other lists are empty.
C15_Witness ==
    /\ ParseSettled
    /\ ps.summary.s = JoinLines(<<<<"e", SP, "f">>, Bold(<<"Key", SP, "Themes">>), Bullet(<<"a">>)>>)
    /\ ps.out.parsed = [headline |-> NoHeadline, themes |-> <<<<"a">>>>,
                        criticalIssues |-> <<>>, recommendation |-> <<>>]

\* The entries the two patterns find in a section text, bullets first.
BulletsThenNumbered(sec) ==
    SelectSeq(Trimmed(ExecAll(bulletRegex, sec, 1)), NonEmpty)
        \o SelectSeq(Trimmed(ExecAll(numberedRegex, sec, 1)), NonEmpty)

\* The non-blank lines of a section text.
LinesOf(sec) == SelectSeq(Trimmed(split(sec)), NonEmpty)

\* The list parseSummary returned for a section is the first n of xs.
FirstOf(list, xs, n) == list = SubSeq(xs, 1, Min(n, Len(xs)))

\* When either pattern matches in a section, the entries are all matches of
\* the bulleted-line pattern in source order followed by all matches of the
\* numbered-list pattern in source order.
BulletsBeforeNumbered ==
    ParseSettled =>
        LET themes == BulletsThenNumbered(SectionText(ps.summary.s, ThemesPatterns))
            issues == BulletsThenNumbered(SectionText(ps.summary.s, IssuesPatterns))
            recs == BulletsThenNumbered(SectionText(ps.summary.s, RecPatterns))
        IN  /\ themes # <<>> => FirstOf(ps.out.parsed.themes, themes, 3)
            /\ issues # <<>> => FirstOf(ps.out.parsed.criticalIssues, issues, 3)
            /\ recs # <<>> => FirstOf(ps.out.parsed.recommendation, recs, 2)

\* C18: the entries of a section are the matches of the bulleted-line
\* pattern followed by those of the numbered-list pattern, and each line of
\* a section contributes at most one entry.
C18_OrderAndOneEntryPerLine ==
    /\ BulletsBeforeNumbered
    /\ ParseSettled =>
          /\ Len(ps.out.parsed.themes) <= Len(LinesOf(SectionText(ps.summary.s, ThemesPatterns)))
          /\ Len(ps.out.parsed.criticalIssues) <= Len(LinesOf(SectionText(ps.summary.s, IssuesPatterns)))
          /\ Len(ps.out.parsed.recommendation) <= Len(LinesOf(SectionText(ps.summary.s, RecPatterns)))

(***************************************************************************)
(* Draining the table (checked under SpecDrain)                            *)
(***************************************************************************)
\* The ids of the rows still unclassified.
Remaining == {id \in DOMAIN store : Unclassified(store[id])}

\* ceil(n / BatchLimit)
Batches(n) == (n + BatchLimit - 1) \div BatchLimit

AllUp == env = [ai |-> "up", db |-> "up"]

\* While every oracle call and every write succeeds: each request holds at
\* most BatchLimit rows, and after ceil(N / BatchLimit) answered requests on
\* a table of N rows no row is unclassified.
DrainedInBatches ==
    AllUp =>
        /\ \A r \in Requests : Len(pf[r].rows) <= BatchLimit
        /\ served >= Batches(Len(store)) => Remaining = {}

\* Once no row is unclassified, no step issues an oracle call or writes.
QuietOnceDrained ==
    [][Remaining = {} =>
          /\ store' = store
          /\ writes' = writes
          /\ \A r \in Requests : pf'[r].pc \notin {"classify", "update"}]_vars

\* While the oracle rejects every call, every row stays unclassified and a
\* request in progress holds the rows the next SELECT returns again.
FailingStaySelected ==
    env.ai = "down" =>
        /\ Remaining = DOMAIN store
        /\ \A r \in Requests :
              pf[r].pc \in {"classify", "update"} => pf[r].rows = SelectUnclassified(store)

\* C19: if every oracle call and every write succeeds, repeated
\* processFeedback requests on a table of N unclassified rows select at most
\* 10 rows each, leave no row unclassified after ceil(N/10) requests, and from
\* then on make no oracle call and no write; the table is eventually and
\* for good without unclassified rows.  Rows whose classification keeps
\* failing stay unclassified and are selected again.
C19_DrainsInBatches ==
    /\ []DrainedInBatches
    /\ QuietOnceDrained
    /\ []FailingStaySelected
    /\ AllUp => <>[](Remaining = {})

\* Eleven rows, all classified by the second request, each written once.
C19_Witness ==
    /\ AllUp
    /\ Len(store) = BatchLimit + 1
    /\ served = 2
    /\ Remaining = {}
    /\ \A id \in DOMAIN writes : writes[id] = 1

====
